---------------------------- MODULE Spec2Model ----------------------------
(***************************************************************************)
(* Model of niche-hunter's backend (src/app.py): the one-time CSV loader   *)
(* load_data with its two numeric parsers, and the /api/trends handler     *)
(* get_trends with its category filter, competition bands, sort and the    *)
(* weekly circular window.                                                 *)
(*                                                                         *)
(* Text is a sequence of one-character strings, so that str.replace,       *)
(* str.strip, str.lower and int() are computed character by character.     *)
(* A missing CSV cell (pandas NaN) is the value NaN below.                 *)
(***************************************************************************)
EXTENDS Integers, Sequences, FiniteSets, TLC

VARIABLES source, niche_data_df, pc, week, ticks, workers, req, resp

vars == <<source, niche_data_df, pc, week, ticks, workers, req, resp>>

(***************************************************************************)
(* Bounds of the model.                                                    *)
(***************************************************************************)
MaxTicks == 1

MaxUltra == 17

MaxMedium == 6

MaxHigh == 1

(***************************************************************************)
(* Program constants.                                                      *)
(***************************************************************************)
LowCompLimitMut == 1000 + 1000

LowCompLimit == 1000

UltraLimit == 500

HighVolume == 100

UltraPick == 15

MediumStep == 5

MaxNichesMut == 20 + 5

MaxNiches == 20

LastWeek == 53

(***************************************************************************)
(* Text.                                                                   *)
(***************************************************************************)
NaN == <<"NaN">>

\* The characters of the modelled inputs in ascending code-point order.
CodePoints == <<" ", "+", ",", "-", "/", "0", "1", "2", "4", "5", "6", "8", "9",
                ">", "A", "C", "F", "L", "N",
                "a", "b", "c", "f", "g", "i", "k", "l", "n", "o", "t", "x">>

Ord(c) == CHOOSE i \in 1..Len(CodePoints) : CodePoints[i] = c

Whitespace == {" "}

Digits == {"0", "1", "2", "3", "4", "5", "6", "7", "8", "9"}

DigitVal(c) ==
    CASE c = "0" -> 0 [] c = "1" -> 1 [] c = "2" -> 2 [] c = "3" -> 3
      [] c = "4" -> 4 [] c = "5" -> 5 [] c = "6" -> 6 [] c = "7" -> 7
      [] c = "8" -> 8 [] c = "9" -> 9

\* str.lower on one character
LowerChar(c) ==
    CASE c = "A" -> "a" [] c = "C" -> "c" [] c = "F" -> "f"
      [] c = "L" -> "l" [] c = "N" -> "n" [] OTHER -> c

\* str.lower
Lower(s) == [i \in 1..Len(s) |-> LowerChar(s[i])]

\* str.replace(c, '')
Remove(s, c) == SelectSeq(s, LAMBDA x : x # c)

RECURSIVE LStrip(_)
LStrip(s) == IF s # <<>> /\ Head(s) \in Whitespace THEN LStrip(Tail(s)) ELSE s

RECURSIVE RStrip(_)
RStrip(s) ==
    IF s # <<>> /\ s[Len(s)] \in Whitespace
    THEN RStrip(SubSeq(s, 1, Len(s) - 1)) ELSE s

\* str.strip
Strip(s) == RStrip(LStrip(s))

RECURSIVE DigitsValue(_)
DigitsValue(s) ==
    IF s = <<>> THEN 0
    ELSE 10 * DigitsValue(SubSeq(s, 1, Len(s) - 1)) + DigitVal(s[Len(s)])

AllDigits(s) == s # <<>> /\ \A i \in 1..Len(s) : s[i] \in Digits

\* Python's int(s) on text: surrounding whitespace, an optional sign, digits.
\* ok = FALSE stands for ValueError.
PyInt(s) ==
    LET t == Strip(s)
        signed == t # <<>> /\ Head(t) \in {"+", "-"}
        body == IF signed THEN Tail(t) ELSE t
    IN  IF AllDigits(body)
        THEN [ok |-> TRUE,
              val |-> IF signed /\ Head(t) = "-" THEN 0 - DigitsValue(body)
                      ELSE DigitsValue(body)]
        ELSE [ok |-> FALSE, val |-> 0]

parse_competing_products(value) ==
    IF value = NaN THEN 0
    ELSE LET s == Strip(Remove(Remove(value, ","), ">"))
         IN  IF Lower(s) = <<"n", "/", "a">> \/ s = <<>> THEN 0
             ELSE IF PyInt(s).ok THEN PyInt(s).val ELSE 0

\* Series.astype(str) on one cell
AsStr(value) == IF value = NaN THEN <<"n", "a", "n">> ELSE value

\* pd.to_numeric(errors='coerce') on one text cell of the modelled inputs
\* (signed integers; anything else, "nan" included, coerces to NaN), then
\* fillna(0).
ToNumericFill0(s) == IF PyInt(s).ok /\ s = Strip(s) THEN PyInt(s).val ELSE 0

search_volume_numeric(value) == ToNumericFill0(Remove(AsStr(value), ","))

searchVolumeText(x) == IF x > HighVolume THEN "High" ELSE "Low"

normalize_category(value) == Strip(Lower(AsStr(value)))

(***************************************************************************)
(* load_data.                                                              *)
(***************************************************************************)
RequiredColumns == {"Keyword Phrase", "Search Volume", "Competing Products", "category"}

\* niche_data_df = None (line 14)
NoneDF == [none |-> TRUE, index |-> <<>>, rows |-> <<>>]

\* pd.DataFrame()
EmptyDF == [none |-> FALSE, index |-> <<>>, rows |-> <<>>]

LeftAsNone == NoneDF

\* What load_data leaves in niche_data_df on each of its failure paths.
FailedLoad == EmptyDF

\* Lines 58-75 on one row of the file.
ProcessRow(r) ==
    [name |-> r.kw,
     search_volume_numeric |-> search_volume_numeric(r.sv),
     amazon_results |-> parse_competing_products(r.cp),
     searchVolumeText |-> searchVolumeText(search_volume_numeric(r.sv)),
     category |-> normalize_category(r.category)]

\* The value load_data assigns to niche_data_df, for a source file src.
LoadedTable(src) ==
    IF ~src.exists THEN FailedLoad
    ELSE IF ~src.readable THEN FailedLoad
    ELSE IF RequiredColumns \ src.columns # {} THEN FailedLoad
    ELSE [none |-> FALSE,
          index |-> [i \in 1..Len(src.rows) |-> i],
          rows |-> [i \in 1..Len(src.rows) |-> ProcessRow(src.rows[i])]]

\* DataFrame.empty
IsEmpty(df) == df.index = <<>>

(***************************************************************************)
(* get_trends: filters, bands, sort.  A frame is its index (the row labels *)
(* in frame order; read_csv labels the rows of the file 1, 2, ...) and its *)
(* rows by label; a derived frame is the sequence of labels it keeps.      *)
(***************************************************************************)
AllText == <<"a", "l", "l">>

\* request.args.get('bookType', 'all').lower().strip()
book_category_filter(bookType) == Strip(Lower(bookType))

RowLabels(df) == df.index

KeepAllRows(df, f) == RowLabels(df)

\* lines 102-105
filtered_df(df, f) ==
    IF f # AllText
    THEN SelectSeq(RowLabels(df), LAMBDA i : df.rows[i].category = f)
    ELSE RowLabels(df)

\* line 112
low_comp_df(df, labels) ==
    SelectSeq(labels, LAMBDA i : df.rows[i].amazon_results < LowCompLimit)

\* line 119
ultra_low_comp_df(df, labels) ==
    SelectSeq(labels, LAMBDA i : df.rows[i].amazon_results < UltraLimit)

\* line 120
medium_low_comp_df(df, labels) ==
    SelectSeq(labels, LAMBDA i : /\ df.rows[i].amazon_results >= UltraLimit
                                 /\ df.rows[i].amazon_results < LowCompLimit)

RECURSIVE StrLess(_, _)
\* a < b for Python strings
StrLess(a, b) ==
    IF b = <<>> THEN FALSE
    ELSE IF a = <<>> THEN TRUE
    ELSE IF Head(a) # Head(b) THEN Ord(Head(a)) < Ord(Head(b))
    ELSE StrLess(Tail(a), Tail(b))

\* Row i sorts before row j: search volume descending, name ascending, and
\* frame order between rows equal on both keys (the sort is stable).
SortsBefore(df, i, j) ==
    LET a == df.rows[i]
        b == df.rows[j]
    IN  \/ a.search_volume_numeric > b.search_volume_numeric
        \/ /\ a.search_volume_numeric = b.search_volume_numeric
           /\ \/ StrLess(a.name, b.name)
              \/ a.name = b.name /\ i < j

\* sort_values(by=['search_volume_numeric', 'name'], ascending=[False, True])
sort_values(df, labels) ==
    LET S == {labels[k] : k \in 1..Len(labels)}
        rank == [i \in S |-> 1 + Cardinality({j \in S : SortsBefore(df, j, i)})]
    IN  [k \in 1..Len(labels) |-> CHOOSE i \in S : rank[i] = k]

(***************************************************************************)
(* get_trends: the weekly rotation.                                        *)
(***************************************************************************)
Min(a, b) == IF a < b THEN a ELSE b

\* s[a:b] for 0 <= a, 0 <= b
Slice(s, a, b) == SubSeq(s, a + 1, Min(b, Len(s)))

StartIndexFixed(current_week, step, n) == 0

\* lines 135 and 150
StartIndex(current_week, step, n) == ((current_week - 1) * step) % n

RECURSIVE Cycle(_, _, _)
Cycle(band, start, count) ==
    IF count = 0 THEN <<>>
    ELSE <<band[(start % Len(band)) + 1]>> \o Cycle(band, start + 1, count - 1)

WindowNoWrap(band, start, count) == Slice(band, start, start + count)

\* lines 136-142 and 151-156: count rows from position start, wrapping once
Window(band, start, count) ==
    LET n == Len(band)
        end_index == start + count
    IN  IF end_index > n
        THEN Slice(band, start, n) \o Slice(band, 0, end_index - n)
        ELSE Slice(band, start, end_index)

\* lines 133-143
selected_ultra_low(ultra, current_week) ==
    IF Len(ultra) > 0
    THEN Window(ultra, StartIndex(current_week, UltraPick, Len(ultra)), UltraPick)
    ELSE <<>>

\* lines 146-157
selected_medium_low(medium, current_week, emitted) ==
    LET remaining_needed == MaxNiches - emitted
    IN  IF remaining_needed > 0 /\ Len(medium) > 0
        THEN Window(medium, StartIndex(current_week, MediumStep, Len(medium)),
                    remaining_needed)
        ELSE <<>>

\* line 160
final_selected_niches(selected_niches) == Slice(selected_niches, 0, MaxNiches)

\* lines 163-170
OutputNiche(row) ==
    [name |-> row.name,
     searchVolumeText |-> row.searchVolumeText,
     amazonResults |-> row.amazon_results,
     category |-> row.category]

output_niches(df, labels) == [k \in 1..Len(labels) |-> OutputNiche(df.rows[labels[k]])]

TableReplacedByFiltered(df, labels) == [df EXCEPT !.index = labels]

\* niche_data_df after a request that derived the frame `labels` from it:
\* get_trends has no `global` statement and every frame it derives is a
\* copy, so the module global keeps its value.
table_after_request(df, labels) == df

(***************************************************************************)
(* Inputs: source files and request arguments.                             *)
(***************************************************************************)
Pick(seq, k) == seq[((k - 1) % Len(seq)) + 1]

Keywords == <<<<"c", "a", "t">>, <<"c", "a", "b">>, <<"c", "a">>>>

VolumeTexts == <<<<"1", "5", "0">>, <<"1", ",", "2", "0", "0">>, <<"a", "b", "c">>, <<"1", "0", "0">>, <<"1", "0", "1">>>>

CategoryTexts == <<<<" ", "F", "i", "c", "t", "i", "o", "n", " ">>, <<"f", "i", "c", "t", "i", "o", "n">>, <<"F", "i", "C", "t", "i", "o", "N">>>>

CookingText == <<"C", "o", "o", "k", "i", "n", "g">>

UltraTexts == <<<<"2", "0", "0">>, <<"n", "/", "a">>, <<"4", "9", "9">>, <<" ", "1", "2", " ">>>>

MediumTexts == <<<<"6", "0", "0">>, <<"5", "0", "0">>, <<"9", "9", "9">>>>

HighTexts == <<<<"1", "5", "0", "0">>, <<">", "1", ",", "0", "0", "0">>, <<"1", ",", "0", "0", "0">>>>

\* Row i of the catalogue file with nh rows of 1000 or more competing
\* products, then nm rows of 500..999, then nu rows below 500.
CatalogueRow(nh, nm, i) ==
    [kw |-> Pick(Keywords, i),
     sv |-> Pick(VolumeTexts, i),
     cp |-> IF i <= nh THEN Pick(HighTexts, i)
            ELSE IF i <= nh + nm THEN Pick(MediumTexts, i - nh)
            ELSE Pick(UltraTexts, i - nh - nm),
     category |-> IF i % 4 = 0 THEN CookingText ELSE Pick(CategoryTexts, i)]

GoodFile(rows) ==
    [exists |-> TRUE, readable |-> TRUE, columns |-> RequiredColumns, rows |-> rows]

Catalogue(nh, nm, nu) ==
    GoodFile([i \in 1..(nh + nm + nu) |-> CatalogueRow(nh, nm, i)])

\* Every catalogue has a row of 1000 or more competing products when its
\* other rows are even in number, and up to MaxHigh of them.
HighRows(nm, nu) == IF (nm + nu) % 2 = 0 THEN MaxHigh ELSE 0

Catalogues ==
    {Catalogue(HighRows(nm, nu), nm, nu) : nm \in {0, 1, MaxMedium}, nu \in 0..MaxUltra}

\* Raw cells of the two numeric columns and of the category column.
CompetingProductsCells ==
    {NaN, <<">", "1", ",", "0", "0", "0">>, <<"8", "2", "6">>, <<"n", "/", "a">>, <<"N", "/", "A">>, <<>>, <<" ", "1", "2", " ">>, <<"-", "5">>, <<"a", "b", "c">>, <<"1", " ", "0">>, <<"+", "9">>, <<">", "-", "2", "0", "0">>, <<"9", "9", "9">>}

SearchVolumeCells == {NaN, <<"1", ",", "2", "0", "0">>, <<"1", "0", "0">>, <<"1", "0", "1">>, <<"a", "b", "c">>, <<"-", "5">>, <<"n", "a", "n">>}

CategoryCells == {NaN, <<" ", "F", "i", "c", "t", "i", "o", "n", " ">>, <<"F", "i", "C", "t", "i", "o", "N">>, CookingText}

OneRowFiles ==
    {GoodFile(<<[kw |-> Pick(Keywords, 1), sv |-> sv, cp |-> cp, category |-> c]>>) :
        sv \in SearchVolumeCells, cp \in CompetingProductsCells, c \in CategoryCells}

\* Files load_data cannot use: absent, unreadable by read_csv (an empty file
\* raises EmptyDataError), or lacking one required column.
BadFiles ==
    {[Catalogue(1, 1, 1) EXCEPT !.exists = FALSE],
     [Catalogue(1, 1, 1) EXCEPT !.readable = FALSE],
     [GoodFile(<<>>) EXCEPT !.readable = FALSE]}
    \cup {[Catalogue(1, 1, 1) EXCEPT !.columns = RequiredColumns \ {c}] : c \in RequiredColumns}

\* The bookType arguments clients send.
BookTypes == {<<" ", "F", "i", "c", "t", "i", "o", "n", " ">>, <<"A", "L", "L">>, <<"c", "o", "o", "k", "i", "n", "g">>}

(***************************************************************************)
(* State.                                                                  *)
(***************************************************************************)
Idle == [pc |-> "idle", bookType |-> <<>>, ultra |-> <<>>, medium |-> <<>>]

NoReply ==
    [status |-> "none", bookType |-> <<>>, week |-> 0, ultra_band |-> <<>>,
     medium_band |-> <<>>, sel_ultra |-> <<>>, sel_medium |-> <<>>,
     final |-> <<>>, out |-> <<>>]

\* jsonify([]) of the early returns
EmptyReply(bookType, now) == [NoReply EXCEPT !.status = "ok", !.bookType = bookType, !.week = now]

InitWith(files, weeks, pool) ==
    /\ source \in files
    /\ niche_data_df = NoneDF
    /\ pc = "import"
    /\ week \in weeks
    /\ ticks = 0
    /\ workers = pool
    /\ req = [w \in pool |-> Idle]
    /\ resp = [w \in pool |-> NoReply]

\* One request at a time over every catalogue and every ISO week.
Init == InitWith(Catalogues, 1..LastWeek, {1})

\* The loader over raw cells and unusable files.
InitLoad == InitWith(OneRowFiles \cup BadFiles \cup {GoodFile(<<>>)}, {1, LastWeek}, {1})

\* Two requests in flight.
InitConc ==
    InitWith({Catalogue(1, 1, 1), Catalogue(0, 2, 5), Catalogue(1, MaxMedium, MaxUltra)},
             1..LastWeek, {1, 2})

(***************************************************************************)
(* Actions.                                                                *)
(***************************************************************************)
\* line 91: load_data() at import, before any request is served
load_data ==
    /\ pc = "import"
    /\ niche_data_df' = LoadedTable(source)
    /\ pc' = "serving"
    /\ UNCHANGED <<source, week, ticks, workers, req, resp>>

\* get_trends, lines 94-125: the early returns, or the two sorted bands
Begin(w, bookType) ==
    /\ pc = "serving"
    /\ req[w].pc = "idle"
    /\ LET df == niche_data_df
           f == book_category_filter(bookType)
           filtered == filtered_df(df, f)
           low == low_comp_df(df, filtered)
       IN  IF df.none \/ IsEmpty(df) \/ filtered = <<>> \/ low = <<>>
           THEN /\ resp' = [resp EXCEPT ![w] = EmptyReply(bookType, week)]
                /\ UNCHANGED <<req, niche_data_df>>
           ELSE /\ req' = [req EXCEPT ![w] =
                            [pc |-> "rotate", bookType |-> bookType,
                             ultra |-> sort_values(df, ultra_low_comp_df(df, low)),
                             medium |-> sort_values(df, medium_low_comp_df(df, low))]]
                /\ resp' = [resp EXCEPT ![w] = NoReply]
                /\ niche_data_df' = table_after_request(df, filtered)
    /\ UNCHANGED <<source, pc, week, ticks, workers>>

\* get_trends, lines 128-173: the clock is read, the windows are cut
Finish(w) ==
    /\ pc = "serving"
    /\ req[w].pc = "rotate"
    /\ LET current_week == week
           su == selected_ultra_low(req[w].ultra, current_week)
           sm == selected_medium_low(req[w].medium, current_week, Len(su))
           final == final_selected_niches(su \o sm)
       IN  resp' = [resp EXCEPT ![w] =
                     [status |-> "ok", bookType |-> req[w].bookType,
                      week |-> current_week,
                      ultra_band |-> req[w].ultra, medium_band |-> req[w].medium,
                      sel_ultra |-> su, sel_medium |-> sm, final |-> final,
                      out |-> output_niches(niche_data_df, final)]]
    /\ req' = [req EXCEPT ![w] = Idle]
    /\ UNCHANGED <<source, niche_data_df, pc, week, ticks, workers>>

\* The wall clock enters the next ISO week (a year has 52 or 53 of them).
Tick ==
    /\ ticks < MaxTicks
    /\ ticks' = ticks + 1
    /\ week' \in IF week = LastWeek THEN {1}
                 ELSE IF week = LastWeek - 1 THEN {LastWeek, 1}
                 ELSE {week + 1}
    /\ UNCHANGED <<source, niche_data_df, pc, workers, req, resp>>

Next ==
    \/ load_data
    \/ \E w \in workers, bookType \in BookTypes : Begin(w, bookType)
    \/ \E w \in workers : Finish(w)
    \/ Tick

Spec == Init /\ [][Next]_vars

SpecLoad == InitLoad /\ [][Next]_vars

SpecConc == InitConc /\ [][Next]_vars

(***************************************************************************)
(* Properties.                                                             *)
(***************************************************************************)
\* The responses sent so far, one per worker at most.
Replies == {resp[w] : w \in {v \in workers : resp[v].status = "ok"}}

\* The responses that went through the rotation (no early return).
Rotated == {r \in Replies : r.ultra_band # <<>> \/ r.medium_band # <<>>}

Table == niche_data_df.rows

Labels(seq) == {seq[k] : k \in 1..Len(seq)}

Occurrences(seq, x) == Cardinality({k \in 1..Len(seq) : seq[k] = x})

\* The normalized form of each bookType argument, written out.
Normalized(bookType) ==
    CASE bookType = <<" ", "F", "i", "c", "t", "i", "o", "n", " ">> -> <<"f", "i", "c", "t", "i", "o", "n">>
      [] bookType = <<"A", "L", "L">> -> <<"a", "l", "l">>
      [] bookType = <<"c", "o", "o", "k", "i", "n", "g">> -> <<"c", "o", "o", "k", "i", "n", "g">>

\* C1: every response has at most 20 records.
C1_AtMostTwenty == \A r \in Replies : Len(r.out) <= 20

C1_Witness == \E r \in Replies : Len(r.ultra_band) > 15 /\ Len(r.medium_band) > 5 /\ Len(r.out) = 20

\* C2: no record of a response has amazonResults of 1000 or more.
C2_LowCompetitionOnly ==
    \A r \in Replies : \A k \in 1..Len(r.out) : r.out[k].amazonResults < 1000

C2_Witness ==
    \E r \in Replies :
        /\ r.out # <<>>
        /\ \E i \in 1..Len(Table) :
              /\ Table[i].amazon_results >= 1000
              /\ Normalized(r.bookType) \in {<<"a", "l", "l">>, Table[i].category}

\* C3: for a filter other than "all", every record of the response has the
\* normalized filter as its category, the bands hold exactly the rows below
\* 1000 whose stored category is the normalized filter, and the response is
\* empty when no row of the table has that category.
C3_CategoryMatch ==
    \A r \in Replies :
        LET f == Normalized(r.bookType)
            matching == {i \in 1..Len(Table) : Table[i].category = f}
        IN  f # <<"a", "l", "l">> =>
              /\ \A k \in 1..Len(r.out) : r.out[k].category = f
              /\ Labels(r.ultra_band) \cup Labels(r.medium_band)
                    = {i \in matching : Table[i].amazon_results < 1000}
              /\ matching = {} => r.out = <<>>

\* A response to " Fiction " holding a row the file spells "FiCtioN".
C3_Witness ==
    \E r \in Replies :
        /\ r.bookType = <<" ", "F", "i", "c", "t", "i", "o", "n", " ">>
        /\ \E k \in 1..Len(r.final) : source.rows[r.final[k]].category = <<"F", "i", "C", "t", "i", "o", "N">>
        /\ \E i \in 1..Len(Table) : Table[i].category = <<"c", "o", "o", "k", "i", "n", "g">>

\* C4: two responses to the same bookType sent in the same ISO week are
\* identical, and the table stays what load_data made of the file.
C4_SameWeekSameOutput ==
    /\ pc = "serving" => niche_data_df = LoadedTable(source)
    /\ \A r1, r2 \in Replies :
          r1.bookType = r2.bookType /\ r1.week = r2.week => r1.out = r2.out

C4_Witness ==
    /\ resp[1].status = "ok" /\ resp[2].status = "ok"
    /\ resp[1].bookType = resp[2].bookType
    /\ resp[1].week = resp[2].week
    /\ resp[1].out # <<>>
    /\ ticks > 0

C6_ExactlyTheTwoRecords ==
    \A r \in Replies :
        Len(r.ultra_band) = 1 /\ Len(r.medium_band) = 1
        => /\ r.final = <<r.ultra_band[1], r.medium_band[1]>>
           /\ Len(r.out) = 2

\* C6, amended: when each band holds one row, the response is the ultraLow
\* row twice followed by the mediumLow row twice, in every week, and holds
\* no row of 1000 or more.
C6_EachRecordTwice ==
    \A r \in Replies :
        Len(r.ultra_band) = 1 /\ Len(r.medium_band) = 1
        => LET u == r.ultra_band[1]
               m == r.medium_band[1]
           IN  /\ r.final = <<u, u, m, m>>
               /\ r.out = <<OutputNiche(Table[u]), OutputNiche(Table[u]),
                            OutputNiche(Table[m]), OutputNiche(Table[m])>>
               /\ Table[u].amazon_results < 500
               /\ Table[m].amazon_results \in 500..999

\* The table of three "fiction" rows with 1500, 600 and 200 competing
\* products, answered in the last week of the year.
C6_Witness ==
    /\ [i \in 1..Len(Table) |-> Table[i].amazon_results] = <<1500, 600, 200>>
    /\ \A i \in 1..Len(Table) : Table[i].category = <<"f", "i", "c", "t", "i", "o", "n">>
    /\ \E r \in Replies :
          /\ r.bookType = <<" ", "F", "i", "c", "t", "i", "o", "n", " ">>
          /\ r.week = 53
          /\ [k \in 1..Len(r.out) |-> r.out[k].amazonResults] = <<200, 200, 600, 600>>

\* C7: every row of the loaded table has amazon_results >= 0 and
\* search_volume_numeric >= 0.
C7_NonNegative ==
    pc = "serving" =>
        \A i \in 1..Len(Table) :
            Table[i].amazon_results >= 0 /\ Table[i].search_volume_numeric >= 0

\* The file is absent, unreadable, lacks a required column or has no rows.
Unusable ==
    \/ ~source.exists
    \/ ~source.readable
    \/ RequiredColumns \ source.columns # {}
    \/ source.rows = <<>>

\* C8: after load_data on an unusable file the table is an empty frame, not
\* None and with no row, and every response is the empty sequence, sent by
\* the first early return.
C8_FailSoft ==
    pc = "serving" /\ Unusable =>
        /\ ~niche_data_df.none
        /\ niche_data_df.index = <<>>
        /\ niche_data_df.rows = <<>>
        /\ \A w \in workers : req[w].pc = "idle"
        /\ \A r \in Replies : r.out = <<>>

C8_Witness ==
    /\ RequiredColumns \ source.columns # {}
    /\ source.rows # <<>>
    /\ \E r \in Replies : r.bookType = <<"A", "L", "L">> /\ r.out = <<>>

\* The band is in order: search volume descending, name ascending.
InOrder(band) ==
    \A k \in 1..(Len(band) - 1) :
        LET a == Table[band[k]]
            b == Table[band[k + 1]]
        IN  \/ a.search_volume_numeric > b.search_volume_numeric
            \/ /\ a.search_volume_numeric = b.search_volume_numeric
               /\ ~StrLess(b.name, a.name)

\* sel is the circular run of the band from position start.
CircularRun(sel, band, start) ==
    \A i \in 0..(Len(sel) - 1) : sel[i + 1] = band[((start + i) % Len(band)) + 1]

\* C9: each window is a consecutive circular run of its sorted band from
\* ((W-1)*15) mod Nu, resp. ((W-1)*5) mod Nm; the ultraLow window has at
\* most 15 rows and 15 when Nu >= 15, the mediumLow window at most
\* remainingNeeded = 20 - (ultraLow rows emitted) and as many when
\* Nm >= remainingNeeded; the ultraLow rows come first in the output.
C9_CircularWindows ==
    \A r \in Rotated :
        LET Nu == Len(r.ultra_band)
            Nm == Len(r.medium_band)
            remainingNeeded == 20 - Len(r.sel_ultra)
        IN  /\ InOrder(r.ultra_band) /\ InOrder(r.medium_band)
            /\ \A k \in 1..Nu : Table[r.ultra_band[k]].amazon_results < 500
            /\ \A k \in 1..Nm : Table[r.medium_band[k]].amazon_results >= 500
            /\ Nu > 0 => CircularRun(r.sel_ultra, r.ultra_band, ((r.week - 1) * 15) % Nu)
            /\ Len(r.sel_ultra) <= 15
            /\ Nu >= 15 => Len(r.sel_ultra) = 15
            /\ Nm > 0 => CircularRun(r.sel_medium, r.medium_band, ((r.week - 1) * 5) % Nm)
            /\ Len(r.sel_medium) <= remainingNeeded
            /\ Nm >= remainingNeeded => Len(r.sel_medium) = remainingNeeded
            /\ r.final = r.sel_ultra \o r.sel_medium
            /\ Len(r.out) = Len(r.final)
            /\ \A k \in 1..Len(r.out) : r.out[k] = OutputNiche(Table[r.final[k]])

\* Both windows run past the end of their band and wrap.
C9_Witness ==
    \E r \in Rotated :
        LET Nu == Len(r.ultra_band)
            Nm == Len(r.medium_band)
        IN  /\ Nu > 15 /\ (((r.week - 1) * 15) % Nu) + 15 > Nu
            /\ Nm > 5 /\ (((r.week - 1) * 5) % Nm) + 5 > Nm
            /\ Len(r.out) = 20
            /\ \E k \in 1..(Nu - 1) :
                  Table[r.ultra_band[k]].search_volume_numeric
                      = Table[r.ultra_band[k + 1]].search_volume_numeric

\* C10: no row is in a response more than twice; a row is there twice only
\* when its band is smaller than the window asked of it; with Nu >= 15 and
\* Nm >= remainingNeeded the rows of a response are distinct.
C10_AtMostTwice ==
    \A r \in Rotated :
        LET Nu == Len(r.ultra_band)
            Nm == Len(r.medium_band)
            remainingNeeded == 20 - Len(r.sel_ultra)
        IN  /\ \A i \in Labels(r.final) :
                  /\ Occurrences(r.final, i) <= 2
                  /\ Occurrences(r.final, i) = 2 =>
                        \/ i \in Labels(r.ultra_band) /\ Nu < 15
                        \/ i \in Labels(r.medium_band) /\ Nm < remainingNeeded
            /\ Nu >= 15 /\ Nm >= remainingNeeded =>
                  \A i \in Labels(r.final) : Occurrences(r.final, i) = 1

\* A response with a repeated ultraLow row and a repeated mediumLow row.
C10_Witness ==
    \E r \in Rotated :
        /\ \E i \in Labels(r.ultra_band) : Occurrences(r.final, i) = 2
        /\ \E i \in Labels(r.medium_band) : Occurrences(r.final, i) = 2
        /\ \E i \in Labels(r.final) : Occurrences(r.final, i) = 1

=============================================================================
